---- MODULE Spec2Model ----
(***************************************************************************)
(* Model of the marker-dispatch channel of MoBI-Markers:                   *)
(*   src/src/mobi_marker/lsl_stream.py  LSLStreamThread                    *)
(*   src/src/mobi_marker/gui.py         MobiMarkerGUI (start, closeEvent)  *)
(*                                                                         *)
(* In the specification Spec                                               *)
(* three contexts take steps: the worker thread executing run(), the GUI   *)
(* thread (the thread that created the LSLStreamThread object, gui.py:286) *)
(* and one further caller thread.  Status texts are recorded without the   *)
(* timestamp prefix that format_status_message puts in front of them.      *)
(*                                                                         *)
(* Signal delivery follows Qt's AutoConnection rule for the connection     *)
(* made at lsl_stream.py:68: the receiver of marker_request is the         *)
(* LSLStreamThread object itself, which lives in the thread that created   *)
(* it.  An emit from that thread calls the slot directly, an emit from any *)
(* other thread posts an event to that thread's event loop.  An emit with  *)
(* no connection calls nothing.                                            *)
(*                                                                         *)
(* The specification GuiSpec runs the slots of MobiMarkerGUI that compose  *)
(* and validate marker texts (send_marker, send_quick_marker,              *)
(* send_end_modality_marker, on_stream_ready) against the widgets' state,  *)
(* recording what each call passes to lsl_thread.send_marker.  A text is a *)
(* sequence of pieces: the characters the user typed and the literals of   *)
(* the program.                                                            *)
(***************************************************************************)
EXTENDS Naturals, Sequences, FiniteSets

VARIABLES
    wpc,          \* position of the worker thread in run()
    wcause,       \* the exception run() has caught ("" when none)
    outlet,       \* self.outlet
    stream_info,  \* self.stream_info
    is_ready,     \* self._is_ready
    mutex,        \* holder of self._mutex
    connected,    \* marker_request is connected to _handle_marker_request
    exited,       \* QThread's pending quit() request
    cpc,          \* position of each caller context
    cur,          \* the send_marker call each caller context is executing
    h,            \* the marker _handle_marker_request is handling
    hOutlet,      \* its local snapshot of self.outlet
    guiQueue,     \* marker_request events posted to the GUI thread's loop
    closeEv,      \* the event argument of the closeEvent in progress, and
                  \* between calls what the last one did with it
    closeCount,   \* closeEvent calls that have returned
    calls,        \* the send_marker calls made so far, by call number
    wlog,         \* what run() has emitted, in order
    slog,         \* what send_marker calls have emitted, in order
    hlog,         \* what _handle_marker_request has called and emitted, in order
    clog,         \* what closeEvent calls have called and emitted, in order
    lsl_thread,   \* MobiMarkerGUI.lsl_thread
    listeners,    \* signals of lsl_thread the window has connected its slots to
    marker_input, \* text of the marker_input line edit
    custom_input, \* text of the custom_modality_input line edit
    modality,     \* modality_combo.currentText()
    enabled,      \* enabled state of the buttons
    last          \* the last slot of MobiMarkerGUI that ran, and what it did

chanvars == <<wpc, wcause, outlet, stream_info, is_ready, mutex, connected, exited,
              cpc, cur, h, hOutlet, guiQueue, closeEv, closeCount,
              calls, wlog, slog, hlog, clog>>

gvars == <<lsl_thread, listeners, marker_input, custom_input, modality, enabled, last>>

vars == <<chanvars, gvars>>

wvars == <<wpc, wcause, outlet, stream_info, is_ready, connected>>
cvars == <<cpc, cur, h, hOutlet, guiQueue, closeEv, closeCount>>
logs  == <<calls, wlog, slog, hlog, clog>>

----------------------------------------------------------------------------
(* Bounds *)

MaxCalls == 2
MaxClose == 2
MaxLen   == 3     \* longest text typed into a line edit

\* The channel never inspects a marker text, it only passes it on: the calls
\* carry pairwise different texts, so that a text tells which call it came
\* from.
Markers == <<"A", "B", "C", "D">>
Callers == {"gui", "other"}

----------------------------------------------------------------------------
(* Status texts *)

MsgStarted   == "LSL stream started successfully"
MsgErrStart  == "Error starting LSL stream: "
MsgNotActive == "LSL stream not active"
MsgSent      == "Sent marker: "
MsgErrSend   == "Error sending marker: "
MsgWarnStop  == "Warning: LSL thread did not stop gracefully"

NoCall == [id |-> 0, text |-> ""]

\* One entry of a log: a call made or a signal emitted, the send_marker call
\* it belongs to (0 when none), the status text and its argument, and the
\* context that executed it.
Ev(ev, id, msg, arg, ctx) ==
    [ev |-> ev, id |-> id, msg |-> msg, arg |-> arg, ctx |-> ctx]

Status(id, msg, arg, ctx) == Ev("status", id, msg, arg, ctx)

isFinished == wpc \in {"done", "killed"}

MsgEmptyMarker == "Error: Empty marker text"
MsgNoThread    == "Error: LSL stream not initialized"
MsgNoCustom    == "Error: Please enter a custom modality"
MsgNotStarted  == "Warning: LSL stream failed to start. Marker buttons disabled."

----------------------------------------------------------------------------
(* Texts and widgets of MobiMarkerGUI *)

Chars  == {" ", "a", "B"}
Inputs == UNION {[1..n -> Chars] : n \in 0..MaxLen}

Modalities   == {"EEG", "Motion Capture", "Other"}
QuickMarkers == {"START", "END BREAK"}
Buttons      == {"send_button", "end_modality_button"} \cup QuickMarkers

\* str.strip()
RECURSIVE LStrip(_)
LStrip(s) == IF s # <<>> /\ Head(s) = " " THEN LStrip(Tail(s)) ELSE s

RECURSIVE RStrip(_)
RStrip(s) ==
    IF s # <<>> /\ s[Len(s)] = " " THEN RStrip(SubSeq(s, 1, Len(s) - 1)) ELSE s

Strip(s) == RStrip(LStrip(s))

\* str.upper()
Upper(s) == [i \in 1..Len(s) |-> IF s[i] = "a" THEN "A" ELSE s[i]]

\* What a slot did: the text it read, the texts it passed to
\* lsl_thread.send_marker and the messages it passed to update_status.
Did(op, arg, fw, st) == [op |-> op, arg |-> arg, fw |-> fw, st |-> st]
NoOp == Did("none", <<>>, <<>>, <<>>)

----------------------------------------------------------------------------
Init ==
    /\ wpc = "unstarted"
    /\ wcause = ""
    /\ outlet = "None"
    /\ stream_info = "None"
    /\ is_ready = FALSE
    /\ mutex = "free"
    /\ connected = FALSE
    /\ exited = FALSE
    /\ cpc = [c \in Callers |-> "idle"]
    /\ cur = [c \in Callers |-> NoCall]
    /\ h = NoCall
    /\ hOutlet = "None"
    /\ guiQueue = <<>>
    /\ closeEv = "none"
    /\ closeCount = 0
    /\ calls = <<>>
    /\ wlog = <<>>
    /\ slog = <<>>
    /\ hlog = <<>>
    /\ clog = <<>>
    /\ lsl_thread \in {"None", "LSLStreamThread"}
    /\ listeners = <<>>
    /\ marker_input = <<>>
    /\ custom_input = <<>>
    /\ modality = "EEG"
    /\ enabled = [b \in Buttons |-> FALSE]
    /\ last = NoOp

----------------------------------------------------------------------------
(* MobiMarkerGUI.start_lsl_stream: QThread.start() *)

\* self.lsl_thread.status_update.connect(self.update_status)
S_ConnectStatus ==
    /\ lsl_thread # "None"
    /\ wpc = "unstarted"
    /\ cpc["gui"] = "idle"
    /\ listeners = <<>>
    /\ listeners' = <<"status_update">>
    /\ UNCHANGED <<lsl_thread, marker_input, custom_input, modality, enabled, last>>
    /\ UNCHANGED chanvars

\* self.lsl_thread.stream_ready.connect(self.on_stream_ready)
S_ConnectReady ==
    /\ lsl_thread # "None"
    /\ wpc = "unstarted"
    /\ cpc["gui"] = "idle"
    /\ listeners = <<"status_update">>
    /\ listeners' = <<"status_update", "stream_ready">>
    /\ UNCHANGED <<lsl_thread, marker_input, custom_input, modality, enabled, last>>
    /\ UNCHANGED chanvars

\* Mutant of Start: start() is called before the slots are connected.
Start_Unwired ==
    /\ lsl_thread # "None"
    /\ wpc = "unstarted"
    /\ cpc["gui"] = "idle"
    /\ listeners = <<>>
    /\ wpc' = "info"
    /\ exited' = FALSE
    /\ UNCHANGED <<wcause, outlet, stream_info, is_ready, mutex, connected>>
    /\ UNCHANGED <<cvars, logs>>
    /\ UNCHANGED gvars

\* self.lsl_thread.start()
Start ==
    /\ lsl_thread # "None"
    /\ listeners = <<"status_update", "stream_ready">>
    /\ wpc = "unstarted"
    /\ cpc["gui"] = "idle"
    /\ wpc' = "info"
    /\ exited' = FALSE
    /\ UNCHANGED <<wcause, outlet, stream_info, is_ready, mutex, connected>>
    /\ UNCHANGED <<cvars, logs>>
    /\ UNCHANGED gvars

----------------------------------------------------------------------------
(* LSLStreamThread.run *)

W_StreamInfo ==
    /\ wpc = "info"
    /\ \E ok \in BOOLEAN :
          IF ok THEN wpc' = "outlet" /\ wcause' = wcause
                ELSE wpc' = "except_status" /\ wcause' = "StreamInfo failed"
    /\ UNCHANGED <<outlet, stream_info, is_ready, mutex, connected, exited>>
    /\ UNCHANGED <<cvars, logs>>
    /\ UNCHANGED gvars

\* Mutant of W_StreamOutlet: the descriptor is stored in self.stream_info
\* as soon as it exists, before the outlet is constructed.
W_StreamOutlet_StoresInfo ==
    /\ wpc = "outlet"
    /\ stream_info' = "StreamInfo"
    /\ \E ok \in BOOLEAN :
          IF ok THEN wpc' = "lock" /\ wcause' = wcause
                ELSE wpc' = "except_status" /\ wcause' = "StreamOutlet failed"
    /\ UNCHANGED <<outlet, is_ready, mutex, connected, exited>>
    /\ UNCHANGED <<cvars, logs>>
    /\ UNCHANGED gvars

W_StreamOutlet ==
    /\ wpc = "outlet"
    /\ \E ok \in BOOLEAN :
          IF ok THEN wpc' = "lock" /\ wcause' = wcause
                ELSE wpc' = "except_status" /\ wcause' = "StreamOutlet failed"
    /\ UNCHANGED <<outlet, stream_info, is_ready, mutex, connected, exited>>
    /\ UNCHANGED <<cvars, logs>>
    /\ UNCHANGED gvars

W_Lock ==
    /\ wpc = "lock"
    /\ mutex = "free"
    /\ mutex' = "worker"
    /\ wpc' = "store"
    /\ UNCHANGED <<wcause, outlet, stream_info, is_ready, connected, exited>>
    /\ UNCHANGED <<cvars, logs>>
    /\ UNCHANGED gvars

\* Mutant of W_Store: the critical section sets the readiness flag and
\* stores the descriptor, and forgets the outlet.
W_Store_NoOutlet ==
    /\ wpc = "store"
    /\ stream_info' = "StreamInfo"
    /\ is_ready' = TRUE
    /\ mutex' = "free"
    /\ wpc' = "status"
    /\ UNCHANGED <<wcause, outlet, connected, exited>>
    /\ UNCHANGED <<cvars, logs>>
    /\ UNCHANGED gvars

\* Mutant of W_Store: the critical section stores the two objects and
\* forgets the readiness flag.
W_Store_NoFlag ==
    /\ wpc = "store"
    /\ stream_info' = "StreamInfo"
    /\ outlet' = "StreamOutlet"
    /\ mutex' = "free"
    /\ wpc' = "status"
    /\ UNCHANGED <<wcause, is_ready, connected, exited>>
    /\ UNCHANGED <<cvars, logs>>
    /\ UNCHANGED gvars

W_Store ==
    /\ wpc = "store"
    /\ stream_info' = "StreamInfo"
    /\ outlet' = "StreamOutlet"
    /\ is_ready' = TRUE
    /\ mutex' = "free"
    /\ wpc' = "status"
    /\ UNCHANGED <<wcause, connected, exited>>
    /\ UNCHANGED <<cvars, logs>>
    /\ UNCHANGED gvars

W_StatusStarted ==
    /\ wpc = "status"
    /\ wlog' = Append(wlog, Status(0, MsgStarted, "", "worker"))
    /\ wpc' = "ready"
    /\ UNCHANGED <<wcause, outlet, stream_info, is_ready, mutex, connected, exited>>
    /\ UNCHANGED <<cvars, calls, slog, hlog, clog>>
    /\ UNCHANGED gvars

W_ReadyTrue ==
    /\ wpc = "ready"
    /\ wlog' = Append(wlog, Ev("stream_ready", 0, "", "True", "worker"))
    /\ wpc' = "connect"
    /\ UNCHANGED <<wcause, outlet, stream_info, is_ready, mutex, connected, exited>>
    /\ UNCHANGED <<cvars, calls, slog, hlog, clog>>
    /\ UNCHANGED gvars

W_Connect ==
    /\ wpc = "connect"
    /\ connected' = TRUE
    /\ wpc' = "exec"
    /\ UNCHANGED <<wcause, outlet, stream_info, is_ready, mutex, exited>>
    /\ UNCHANGED <<cvars, logs>>
    /\ UNCHANGED gvars

\* Mutant of W_ExecReturns: run() drops its outlet when the loop ends.
W_ExecReturns_DropsOutlet ==
    /\ wpc = "exec"
    /\ exited
    /\ wpc' = "done"
    /\ outlet' = "None"
    /\ UNCHANGED <<wcause, stream_info, is_ready, mutex, connected, exited>>
    /\ UNCHANGED <<cvars, logs>>
    /\ UNCHANGED gvars

\* self.exec() returns once quit() has been requested, before or after the
\* loop was entered; run() then returns.
W_ExecReturns ==
    /\ wpc = "exec"
    /\ exited
    /\ wpc' = "done"
    /\ UNCHANGED <<wcause, outlet, stream_info, is_ready, mutex, connected, exited>>
    /\ UNCHANGED <<cvars, logs>>
    /\ UNCHANGED gvars

\* self.exec() is inside the try block: an exception leaving it is caught
\* by the handler of lines 71-75.
W_ExecRaises ==
    /\ wpc = "exec"
    /\ wpc' = "except_status"
    /\ wcause' = "exec failed"
    /\ UNCHANGED <<outlet, stream_info, is_ready, mutex, connected, exited>>
    /\ UNCHANGED <<cvars, logs>>
    /\ UNCHANGED gvars

W_ExceptStatus ==
    /\ wpc = "except_status"
    /\ wlog' = Append(wlog, Status(0, MsgErrStart, wcause, "worker"))
    /\ wpc' = "except_ready"
    /\ UNCHANGED <<wcause, outlet, stream_info, is_ready, mutex, connected, exited>>
    /\ UNCHANGED <<cvars, calls, slog, hlog, clog>>
    /\ UNCHANGED gvars

W_ExceptReady ==
    /\ wpc = "except_ready"
    /\ wlog' = Append(wlog, Ev("stream_ready", 0, "", "False", "worker"))
    /\ wpc' = "done"
    /\ UNCHANGED <<wcause, outlet, stream_info, is_ready, mutex, connected, exited>>
    /\ UNCHANGED <<cvars, calls, slog, hlog, clog>>
    /\ UNCHANGED gvars

----------------------------------------------------------------------------
(* LSLStreamThread.send_marker, called by context c *)

\* The call is numbered, and recorded with its text, its caller, whether it
\* began after quit() was requested and after a closeEvent had returned, and
\* (set when it passes the readiness check) how much of hlog had happened
\* by then and whether quit() had been requested by then.
SM_Call(c) ==
    /\ lsl_thread # "None"
    /\ cpc[c] = "idle"
    /\ Len(calls) < MaxCalls
    /\ Len(calls) < Len(Markers)
    /\ LET t == Markers[Len(calls) + 1] IN
          /\ cur' = [cur EXCEPT ![c] = [id |-> Len(calls) + 1, text |-> t]]
          /\ calls' = Append(calls, [text |-> t, ctx |-> c, afterQuit |-> exited,
                                     afterClose |-> closeCount > 0,
                                     seen |-> 0])
    /\ cpc' = [cpc EXCEPT ![c] = "sm_lock"]
    /\ UNCHANGED <<h, hOutlet, guiQueue, closeEv, closeCount, mutex, exited>>
    /\ UNCHANGED <<wvars, wlog, slog, hlog, clog>>
    /\ UNCHANGED gvars

\* Mutant of SM_Lock: send_marker reads the readiness flag without taking
\* the mutex.
SM_Lock_NoLock(c) ==
    /\ cpc[c] = "sm_lock"
    /\ cpc' = [cpc EXCEPT ![c] = "sm_check"]
    /\ UNCHANGED <<cur, h, hOutlet, guiQueue, closeEv, closeCount, mutex, exited>>
    /\ UNCHANGED <<wvars, logs>>
    /\ UNCHANGED gvars

SM_Lock(c) ==
    /\ cpc[c] = "sm_lock"
    /\ mutex = "free"
    /\ mutex' = c
    /\ cpc' = [cpc EXCEPT ![c] = "sm_check"]
    /\ UNCHANGED <<cur, h, hOutlet, guiQueue, closeEv, closeCount, exited>>
    /\ UNCHANGED <<wvars, logs>>
    /\ UNCHANGED gvars

\* Mutant of SM_Check: the not-ready branch reports and, its return missing,
\* falls through to the emit.
SM_Check_NoReturn(c) ==
    /\ cpc[c] = "sm_check"
    /\ IF ~is_ready
         THEN /\ slog' = Append(slog, Status(cur[c].id, MsgNotActive, "", c))
              /\ UNCHANGED calls
         ELSE /\ slog' = Append(slog, Ev("accepted", cur[c].id, "", cur[c].text, c))
              /\ calls' = [calls EXCEPT ![cur[c].id].seen = Len(hlog),
                                         ![cur[c].id].afterQuit = exited]
    /\ cpc' = [cpc EXCEPT ![c] = "sm_emit"]
    /\ mutex' = "free"
    /\ UNCHANGED <<cur, h, hOutlet, guiQueue, closeEv, closeCount, exited>>
    /\ UNCHANGED <<wvars, wlog, hlog, clog>>
    /\ UNCHANGED gvars

\* The readiness check under the lock; leaving the with block, by return
\* or by falling through, releases the lock.
SM_Check(c) ==
    /\ cpc[c] = "sm_check"
    /\ IF ~is_ready
         THEN /\ slog' = Append(slog, Status(cur[c].id, MsgNotActive, "", c))
              /\ cpc' = [cpc EXCEPT ![c] = "idle"]
              /\ cur' = [cur EXCEPT ![c] = NoCall]
              /\ UNCHANGED calls
         ELSE /\ slog' = Append(slog, Ev("accepted", cur[c].id, "", cur[c].text, c))
              /\ cpc' = [cpc EXCEPT ![c] = "sm_emit"]
              /\ calls' = [calls EXCEPT ![cur[c].id].seen = Len(hlog),
                                         ![cur[c].id].afterQuit = exited]
              /\ UNCHANGED cur
    /\ mutex' = "free"
    /\ UNCHANGED <<h, hOutlet, guiQueue, closeEv, closeCount, exited>>
    /\ UNCHANGED <<wvars, wlog, hlog, clog>>
    /\ UNCHANGED gvars

\* Mutant of SM_Emit: send_marker reports the marker as sent when it has
\* forwarded it.
SM_Emit_AlsoReports(c) ==
    /\ cpc[c] = "sm_emit"
    /\ slog' = slog \o << Ev("marker_request", cur[c].id, "", cur[c].text, c),
                          Status(cur[c].id, MsgSent, cur[c].text, c) >>
    /\ IF ~connected
         THEN /\ cpc' = [cpc EXCEPT ![c] = "idle"]
              /\ UNCHANGED <<h, guiQueue>>
         ELSE IF c = "gui"
           THEN /\ cpc' = [cpc EXCEPT ![c] = "h_lock"]
                /\ h' = cur[c]
                /\ UNCHANGED guiQueue
           ELSE /\ cpc' = [cpc EXCEPT ![c] = "idle"]
                /\ guiQueue' = Append(guiQueue, cur[c])
                /\ UNCHANGED h
    /\ cur' = [cur EXCEPT ![c] = NoCall]
    /\ UNCHANGED <<hOutlet, closeEv, closeCount, mutex, exited>>
    /\ UNCHANGED <<wvars, calls, wlog, hlog, clog>>
    /\ UNCHANGED gvars

\* self.marker_request.emit(marker)
SM_Emit(c) ==
    /\ cpc[c] = "sm_emit"
    /\ slog' = Append(slog, Ev("marker_request", cur[c].id, "", cur[c].text, c))
    /\ IF ~connected
         THEN /\ cpc' = [cpc EXCEPT ![c] = "idle"]
              /\ UNCHANGED <<h, guiQueue>>
         ELSE IF c = "gui"
           THEN /\ cpc' = [cpc EXCEPT ![c] = "h_lock"]
                /\ h' = cur[c]
                /\ UNCHANGED guiQueue
           ELSE /\ cpc' = [cpc EXCEPT ![c] = "idle"]
                /\ guiQueue' = Append(guiQueue, cur[c])
                /\ UNCHANGED h
    /\ cur' = [cur EXCEPT ![c] = NoCall]
    /\ UNCHANGED <<hOutlet, closeEv, closeCount, mutex, exited>>
    /\ UNCHANGED <<wvars, calls, wlog, hlog, clog>>
    /\ UNCHANGED gvars

\* The GUI thread's event loop delivers a posted marker_request.
GUI_Dispatch ==
    /\ cpc["gui"] = "idle"
    /\ guiQueue # <<>>
    /\ h' = Head(guiQueue)
    /\ guiQueue' = Tail(guiQueue)
    /\ cpc' = [cpc EXCEPT !["gui"] = "h_lock"]
    /\ UNCHANGED <<cur, hOutlet, closeEv, closeCount, mutex, exited>>
    /\ UNCHANGED <<wvars, logs>>
    /\ UNCHANGED gvars

----------------------------------------------------------------------------
(* LSLStreamThread._handle_marker_request *)

H_Lock ==
    /\ cpc["gui"] = "h_lock"
    /\ mutex = "free"
    /\ mutex' = "gui"
    /\ cpc' = [cpc EXCEPT !["gui"] = "h_snap"]
    /\ UNCHANGED <<cur, h, hOutlet, guiQueue, closeEv, closeCount, exited>>
    /\ UNCHANGED <<wvars, logs>>
    /\ UNCHANGED gvars

\* Mutant of H_Snap: the snapshot is taken and the with block is not left,
\* the lock stays held for the push.
H_Snap_KeepsLock ==
    /\ cpc["gui"] = "h_snap"
    /\ hOutlet' = outlet
    /\ cpc' = [cpc EXCEPT !["gui"] = "h_push"]
    /\ UNCHANGED <<cur, h, guiQueue, closeEv, closeCount, mutex, exited>>
    /\ UNCHANGED <<wvars, logs>>
    /\ UNCHANGED gvars

H_Snap ==
    /\ cpc["gui"] = "h_snap"
    /\ hOutlet' = outlet
    /\ mutex' = "free"
    /\ cpc' = [cpc EXCEPT !["gui"] = "h_push"]
    /\ UNCHANGED <<cur, h, guiQueue, closeEv, closeCount, exited>>
    /\ UNCHANGED <<wvars, logs>>
    /\ UNCHANGED gvars

\* Mutant of H_Push: the try block is missing, an exception of push_sample
\* leaves _handle_marker_request and nothing is reported.
H_Push_Uncaught ==
    /\ cpc["gui"] = "h_push"
    /\ IF hOutlet = "None"
         THEN /\ hlog' = Append(hlog, Status(h.id, MsgNotActive, "", "gui"))
              /\ cpc' = [cpc EXCEPT !["gui"] = "idle"]
         ELSE \E ok \in BOOLEAN :
                IF ok
                  THEN /\ hlog' = hlog \o
                            << Ev("push_sample", h.id, "returned", h.text, "gui"),
                               Status(h.id, MsgSent, h.text, "gui") >>
                       /\ cpc' = [cpc EXCEPT !["gui"] = "idle"]
                  ELSE /\ hlog' = Append(hlog,
                               Ev("push_sample", h.id, "raised", h.text, "gui"))
                       /\ cpc' = [cpc EXCEPT !["gui"] = "raised"]
    /\ h' = NoCall
    /\ hOutlet' = "None"
    /\ UNCHANGED <<cur, guiQueue, closeEv, closeCount, mutex, exited>>
    /\ UNCHANGED <<wvars, calls, wlog, slog, clog>>
    /\ UNCHANGED gvars

\* Mutant of H_Push: a push failure is treated as fatal, the outlet is
\* dropped and the readiness flag reset.
H_Push_Fatal ==
    /\ cpc["gui"] = "h_push"
    /\ IF hOutlet = "None"
         THEN /\ hlog' = Append(hlog, Status(h.id, MsgNotActive, "", "gui"))
              /\ UNCHANGED <<outlet, is_ready>>
         ELSE \E ok \in BOOLEAN :
                IF ok
                  THEN /\ hlog' = hlog \o
                            << Ev("push_sample", h.id, "returned", h.text, "gui"),
                               Status(h.id, MsgSent, h.text, "gui") >>
                       /\ UNCHANGED <<outlet, is_ready>>
                  ELSE /\ hlog' = hlog \o
                            << Ev("push_sample", h.id, "raised", h.text, "gui"),
                               Status(h.id, MsgErrSend, "push failed", "gui") >>
                       /\ outlet' = "None"
                       /\ is_ready' = FALSE
    /\ cpc' = [cpc EXCEPT !["gui"] = "idle"]
    /\ h' = NoCall
    /\ hOutlet' = "None"
    /\ UNCHANGED <<cur, guiQueue, closeEv, closeCount, mutex, exited>>
    /\ UNCHANGED <<wpc, wcause, stream_info, connected>>
    /\ UNCHANGED <<calls, wlog, slog, clog>>
    /\ UNCHANGED gvars

H_Push ==
    /\ cpc["gui"] = "h_push"
    /\ IF hOutlet = "None"
         THEN hlog' = Append(hlog, Status(h.id, MsgNotActive, "", "gui"))
         ELSE \E ok \in BOOLEAN :
                IF ok
                  THEN hlog' = hlog \o
                         << Ev("push_sample", h.id, "returned", h.text, "gui"),
                            Status(h.id, MsgSent, h.text, "gui") >>
                  ELSE hlog' = hlog \o
                         << Ev("push_sample", h.id, "raised", h.text, "gui"),
                            Status(h.id, MsgErrSend, "push failed", "gui") >>
    /\ cpc' = [cpc EXCEPT !["gui"] = "idle"]
    /\ h' = NoCall
    /\ hOutlet' = "None"
    /\ UNCHANGED <<cur, guiQueue, closeEv, closeCount, mutex, exited>>
    /\ UNCHANGED <<wvars, calls, wlog, slog, clog>>
    /\ UNCHANGED gvars

----------------------------------------------------------------------------
(* MobiMarkerGUI.closeEvent, executed by the GUI thread *)

\* self.lsl_thread is None: nothing is stopped.
CE_NoThread ==
    /\ lsl_thread = "None"
    /\ cpc["gui"] = "idle"
    /\ closeCount < MaxClose
    /\ \E e \in {"event", "None"} : closeEv' = e
    /\ cpc' = [cpc EXCEPT !["gui"] = "ce_return"]
    /\ UNCHANGED <<cur, h, hOutlet, guiQueue, closeCount, mutex, exited>>
    /\ UNCHANGED <<wvars, logs>>
    /\ UNCHANGED gvars

CE_Quit ==
    /\ lsl_thread # "None"
    /\ cpc["gui"] = "idle"
    /\ wpc # "unstarted"
    /\ closeCount < MaxClose
    /\ \E e \in {"event", "None"} : closeEv' = e
    /\ exited' = TRUE
    /\ clog' = Append(clog, Ev("quit", 0, "", "", "gui"))
    /\ cpc' = [cpc EXCEPT !["gui"] = "ce_wait"]
    /\ UNCHANGED <<cur, h, hOutlet, guiQueue, closeCount, mutex>>
    /\ UNCHANGED <<wvars, calls, wlog, slog, hlog>>
    /\ UNCHANGED gvars

\* Mutant of CE_WaitOk: wait(3000) returns True without waiting for the
\* worker to finish.
CE_WaitOk_NoWait ==
    /\ cpc["gui"] = "ce_wait"
    /\ clog' = Append(clog, Ev("wait3000", 0, "", "True", "gui"))
    /\ cpc' = [cpc EXCEPT !["gui"] = "ce_return"]
    /\ UNCHANGED <<cur, h, hOutlet, guiQueue, closeEv, closeCount, mutex, exited>>
    /\ UNCHANGED <<wvars, calls, wlog, slog, hlog>>
    /\ UNCHANGED gvars

\* wait(3000) returns True: the worker has finished.
CE_WaitOk ==
    /\ cpc["gui"] = "ce_wait"
    /\ isFinished
    /\ clog' = Append(clog, Ev("wait3000", 0, "", "True", "gui"))
    /\ cpc' = [cpc EXCEPT !["gui"] = "ce_return"]
    /\ UNCHANGED <<cur, h, hOutlet, guiQueue, closeEv, closeCount, mutex, exited>>
    /\ UNCHANGED <<wvars, calls, wlog, slog, hlog>>
    /\ UNCHANGED gvars

\* Mutant of CE_WaitTimeout: the test of wait(3000) has lost its "not", the
\* escalation runs when the worker has finished.
CE_WaitTimeout_Inverted ==
    /\ cpc["gui"] = "ce_wait"
    /\ isFinished
    /\ clog' = Append(clog, Ev("wait3000", 0, "", "False", "gui"))
    /\ cpc' = [cpc EXCEPT !["gui"] = "ce_warn"]
    /\ UNCHANGED <<cur, h, hOutlet, guiQueue, closeEv, closeCount, mutex, exited>>
    /\ UNCHANGED <<wvars, calls, wlog, slog, hlog>>
    /\ UNCHANGED gvars

\* wait(3000) returns False: the worker was still running when the time
\* was up.
CE_WaitTimeout ==
    /\ cpc["gui"] = "ce_wait"
    /\ ~isFinished
    /\ clog' = Append(clog, Ev("wait3000", 0, "", "False", "gui"))
    /\ cpc' = [cpc EXCEPT !["gui"] = "ce_warn"]
    /\ UNCHANGED <<cur, h, hOutlet, guiQueue, closeEv, closeCount, mutex, exited>>
    /\ UNCHANGED <<wvars, calls, wlog, slog, hlog>>
    /\ UNCHANGED gvars

\* Mutant of CE_Warn: the escalation goes to terminate() without the
\* warning.
CE_Warn_Silent ==
    /\ cpc["gui"] = "ce_warn"
    /\ cpc' = [cpc EXCEPT !["gui"] = "ce_term"]
    /\ UNCHANGED <<cur, h, hOutlet, guiQueue, closeEv, closeCount, mutex, exited>>
    /\ UNCHANGED <<wvars, logs>>
    /\ UNCHANGED gvars

CE_Warn ==
    /\ cpc["gui"] = "ce_warn"
    /\ clog' = Append(clog, Status(0, MsgWarnStop, "", "gui"))
    /\ cpc' = [cpc EXCEPT !["gui"] = "ce_term"]
    /\ UNCHANGED <<cur, h, hOutlet, guiQueue, closeEv, closeCount, mutex, exited>>
    /\ UNCHANGED <<wvars, calls, wlog, slog, hlog>>
    /\ UNCHANGED gvars

\* terminate() stops the worker wherever it is; a mutex it holds stays
\* locked.
CE_Terminate ==
    /\ cpc["gui"] = "ce_term"
    /\ clog' = Append(clog, Ev("terminate", 0, "", "", "gui"))
    /\ wpc' = IF isFinished THEN wpc ELSE "killed"
    /\ cpc' = [cpc EXCEPT !["gui"] = "ce_wait2"]
    /\ UNCHANGED <<wcause, outlet, stream_info, is_ready, connected>>
    /\ UNCHANGED <<cur, h, hOutlet, guiQueue, closeEv, closeCount, mutex, exited>>
    /\ UNCHANGED <<calls, wlog, slog, hlog>>
    /\ UNCHANGED gvars

CE_FinalWait ==
    /\ cpc["gui"] = "ce_wait2"
    /\ isFinished
    /\ clog' = Append(clog, Ev("wait", 0, "", "True", "gui"))
    /\ cpc' = [cpc EXCEPT !["gui"] = "ce_return"]
    /\ UNCHANGED <<cur, h, hOutlet, guiQueue, closeEv, closeCount, mutex, exited>>
    /\ UNCHANGED <<wvars, calls, wlog, slog, hlog>>
    /\ UNCHANGED gvars

\* event.accept() when an event was given, then closeEvent returns.
CE_Return ==
    /\ cpc["gui"] = "ce_return"
    /\ clog' = Append(clog, Ev("return", 0, "", "", "gui"))
    /\ closeCount' = closeCount + 1
    /\ closeEv' = IF closeEv = "event" THEN "accepted" ELSE "none"
    /\ cpc' = [cpc EXCEPT !["gui"] = "idle"]
    /\ UNCHANGED <<cur, h, hOutlet, guiQueue, mutex, exited>>
    /\ UNCHANGED <<wvars, calls, wlog, slog, hlog>>
    /\ UNCHANGED gvars

----------------------------------------------------------------------------
Next ==
    \/ S_ConnectStatus
    \/ S_ConnectReady
    \/ Start
    \/ W_StreamInfo
    \/ W_StreamOutlet
    \/ W_Lock
    \/ W_Store
    \/ W_StatusStarted
    \/ W_ReadyTrue
    \/ W_Connect
    \/ W_ExecReturns
    \/ W_ExecRaises
    \/ W_ExceptStatus
    \/ W_ExceptReady
    \/ \E c \in Callers : SM_Call(c)
    \/ \E c \in Callers : SM_Lock(c)
    \/ \E c \in Callers : SM_Check(c)
    \/ \E c \in Callers : SM_Emit(c)
    \/ GUI_Dispatch
    \/ H_Lock
    \/ H_Snap
    \/ H_Push
    \/ CE_NoThread
    \/ CE_Quit
    \/ CE_WaitOk
    \/ CE_WaitTimeout
    \/ CE_Warn
    \/ CE_Terminate
    \/ CE_FinalWait
    \/ CE_Return

Spec == Init /\ [][Next]_vars

----------------------------------------------------------------------------
(* MobiMarkerGUI: the user edits the widgets *)

G_Type ==
    /\ Len(marker_input) < MaxLen
    /\ \E ch \in Chars : marker_input' = Append(marker_input, ch)
    /\ last' = NoOp
    /\ UNCHANGED <<lsl_thread, listeners, custom_input, modality, enabled>>
    /\ UNCHANGED chanvars

\* custom_modality_input is visible while 'Other' is selected.
G_TypeCustom ==
    /\ modality = "Other"
    /\ Len(custom_input) < MaxLen
    /\ \E ch \in Chars : custom_input' = Append(custom_input, ch)
    /\ last' = NoOp
    /\ UNCHANGED <<lsl_thread, listeners, marker_input, modality, enabled>>
    /\ UNCHANGED chanvars

G_SelectModality ==
    /\ \E m \in Modalities : modality' = m
    /\ last' = NoOp
    /\ UNCHANGED <<lsl_thread, listeners, marker_input, custom_input, enabled>>
    /\ UNCHANGED chanvars

\* Mutant of G_SendMarker: the text is taken without strip().
G_SendMarker_NoStrip ==
    /\ LET marker_text == marker_input IN
         IF marker_text = <<>>
           THEN /\ last' = Did("send_marker", marker_input, <<>>, <<MsgEmptyMarker>>)
                /\ UNCHANGED marker_input
           ELSE IF lsl_thread # "None"
             THEN /\ last' = Did("send_marker", marker_input, <<marker_text>>, <<>>)
                  /\ marker_input' = <<>>
             ELSE /\ last' = Did("send_marker", marker_input, <<>>, <<MsgNoThread>>)
                  /\ UNCHANGED marker_input
    /\ UNCHANGED <<lsl_thread, listeners, custom_input, modality, enabled>>
    /\ UNCHANGED chanvars

(* MobiMarkerGUI.send_marker: Return in marker_input, or the send button *)
G_SendMarker ==
    /\ LET marker_text == Strip(marker_input) IN
         IF marker_text = <<>>
           THEN /\ last' = Did("send_marker", marker_input, <<>>, <<MsgEmptyMarker>>)
                /\ UNCHANGED marker_input
           ELSE IF lsl_thread # "None"
             THEN /\ last' = Did("send_marker", marker_input, <<marker_text>>, <<>>)
                  /\ marker_input' = <<>>
             ELSE /\ last' = Did("send_marker", marker_input, <<>>, <<MsgNoThread>>)
                  /\ UNCHANGED marker_input
    /\ UNCHANGED <<lsl_thread, listeners, custom_input, modality, enabled>>
    /\ UNCHANGED chanvars

(* MobiMarkerGUI.send_quick_marker: a click on an enabled quick button *)
G_SendQuick ==
    /\ \E q \in QuickMarkers :
          /\ enabled[q]
          /\ IF lsl_thread # "None"
               THEN last' = Did("send_quick_marker", <<q>>, << <<q>> >>, <<>>)
               ELSE last' = Did("send_quick_marker", <<q>>, <<>>, <<MsgNoThread>>)
    /\ UNCHANGED <<lsl_thread, listeners, marker_input, custom_input, modality, enabled>>
    /\ UNCHANGED chanvars

\* Mutant of G_SendEnd: the custom input is cleared only after the marker
\* has been passed to the thread.
G_SendEnd_ClearsOnSend ==
    /\ enabled["end_modality_button"]
    /\ LET custom_modality == Strip(custom_input)
           marker_text == IF modality = "Other"
                            THEN <<"END ">> \o Upper(custom_modality)
                            ELSE <<"END ", modality>>
       IN  IF modality = "Other" /\ custom_modality = <<>>
             THEN /\ last' = Did("send_end_modality_marker", custom_input, <<>>, <<MsgNoCustom>>)
                  /\ UNCHANGED custom_input
             ELSE IF lsl_thread # "None"
               THEN /\ last' = Did("send_end_modality_marker", custom_input,
                                   <<marker_text>>, <<>>)
                    /\ custom_input' = IF modality = "Other" THEN <<>> ELSE custom_input
               ELSE /\ last' = Did("send_end_modality_marker", custom_input,
                                   <<>>, <<MsgNoThread>>)
                    /\ UNCHANGED custom_input
    /\ UNCHANGED <<lsl_thread, listeners, marker_input, modality, enabled>>
    /\ UNCHANGED chanvars

(* MobiMarkerGUI.send_end_modality_marker: a click on the enabled END button *)
G_SendEnd ==
    /\ enabled["end_modality_button"]
    /\ LET custom_modality == Strip(custom_input)
           marker_text == IF modality = "Other"
                            THEN <<"END ">> \o Upper(custom_modality)
                            ELSE <<"END ", modality>>
       IN  IF modality = "Other" /\ custom_modality = <<>>
             THEN /\ last' = Did("send_end_modality_marker", custom_input, <<>>, <<MsgNoCustom>>)
                  /\ UNCHANGED custom_input
             ELSE /\ custom_input' = IF modality = "Other" THEN <<>> ELSE custom_input
                  /\ IF lsl_thread # "None"
                       THEN last' = Did("send_end_modality_marker", custom_input,
                                        <<marker_text>>, <<>>)
                       ELSE last' = Did("send_end_modality_marker", custom_input,
                                        <<>>, <<MsgNoThread>>)
    /\ UNCHANGED <<lsl_thread, listeners, marker_input, modality, enabled>>
    /\ UNCHANGED chanvars

\* Mutant of G_OnStreamReady: the loop over quick_marker_buttons is missing.
G_OnStreamReady_SkipsQuick ==
    /\ \E ready \in BOOLEAN :
          /\ enabled' = [b \in Buttons |->
                            IF b \in QuickMarkers THEN enabled[b] ELSE ready]
          /\ last' = Did("on_stream_ready", <<IF ready THEN "True" ELSE "False">>, <<>>,
                         IF ~ready THEN <<MsgNotStarted>> ELSE <<>>)
    /\ UNCHANGED <<lsl_thread, listeners, marker_input, custom_input, modality>>
    /\ UNCHANGED chanvars

(* MobiMarkerGUI.on_stream_ready *)
G_OnStreamReady ==
    /\ \E ready \in BOOLEAN :
          /\ enabled' = [b \in Buttons |-> ready]
          /\ last' = Did("on_stream_ready", <<IF ready THEN "True" ELSE "False">>, <<>>,
                         IF ~ready THEN <<MsgNotStarted>> ELSE <<>>)
    /\ UNCHANGED <<lsl_thread, listeners, marker_input, custom_input, modality>>
    /\ UNCHANGED chanvars

GuiNext ==
    \/ G_Type
    \/ G_TypeCustom
    \/ G_SelectModality
    \/ G_SendMarker
    \/ G_SendQuick
    \/ G_SendEnd
    \/ G_OnStreamReady

GuiSpec == Init /\ [][GuiNext]_vars

----------------------------------------------------------------------------
(* Reading the logs *)

IsAccepted(e) == e.ev = "accepted"
IsRequest(e)  == e.ev = "marker_request"
IsRejected(e) == e.ev = "status" /\ e.msg = MsgNotActive
IsPush(e)     == e.ev = "push_sample"
IsTerminal(e) == e.ev = "status" /\ e.msg \in {MsgSent, MsgErrSend}
IsReady(e)    == e.ev = "stream_ready"

Ids(seq) == [i \in 1..Len(seq) |-> seq[i].id]
CountOf(seq, k, Test(_)) ==
    Cardinality({i \in 1..Len(seq) : seq[i].id = k /\ Test(seq[i])})
IsPrefix(a, b) == Len(a) <= Len(b) /\ \A i \in 1..Len(a) : a[i] = b[i]

CallIds     == 1..Len(calls)
AcceptedIds == Ids(SelectSeq(slog, IsAccepted))
TerminalIds == Ids(SelectSeq(hlog, IsTerminal))
PushIds     == Ids(SelectSeq(hlog, IsPush))

WasAccepted(k) == CountOf(slog, k, IsAccepted) > 0
WasRejected(k) == CountOf(slog, k, IsRejected) > 0

\* Call k is over: its send_marker has returned, and its marker_request, if
\* one was delivered, has been handled.
Settled(k) ==
    /\ \A c \in Callers : cur[c].id # k
    /\ h.id # k
    /\ \A i \in 1..Len(guiQueue) : guiQueue[i].id # k

StartedEv    == Status(0, MsgStarted, "", "worker")
ReadyTrueEv  == Ev("stream_ready", 0, "", "True", "worker")
ReadyFalseEv == Ev("stream_ready", 0, "", "False", "worker")

ConstructionFailed == wcause \in {"StreamInfo failed", "StreamOutlet failed"}

----------------------------------------------------------------------------
\* C1: while no shutdown has been requested, every send_marker call that
\* read the readiness flag as true gets exactly one terminal status report
\* ('Sent marker' or 'Error sending marker'): never two, and one once the
\* call is over, wherever run() was when the flag was read.
C1_ExactlyOneTerminalReport ==
    clog = <<>> =>
        \A k \in CallIds :
            WasAccepted(k) =>
                /\ CountOf(hlog, k, IsTerminal) <= 1
                /\ Settled(k) => CountOf(hlog, k, IsTerminal) = 1

\* C2: a send_marker call made after a closeEvent has returned is never
\* forwarded and never pushed, and ends with exactly one 'LSL stream not
\* active' status report.
C2_RejectedAfterShutdown ==
    \A k \in CallIds :
        calls[k].afterClose =>
            /\ CountOf(slog, k, IsAccepted) = 0
            /\ CountOf(slog, k, IsRequest) = 0
            /\ CountOf(hlog, k, IsPush) = 0
            /\ Settled(k) => CountOf(slog, k, IsRejected) = 1

\* C3: run() emits stream_ready at most once, exactly once when it has
\* returned, and with True exactly when StreamInfo and StreamOutlet were
\* both constructed.
C3_StreamReadyOnce ==
    LET r == SelectSeq(wlog, IsReady) IN
        /\ Len(r) <= 1
        /\ wpc = "done" => Len(r) = 1
        /\ \A i \in 1..Len(r) :
               r[i].arg = IF ConstructionFailed THEN "False" ELSE "True"

\* C4: a send_marker call that reads the readiness flag as false emits one
\* 'LSL stream not active' status report, releases the lock and returns,
\* emits no marker_request and touches nothing else; such a call never has
\* a second report, an acceptance, a request or a push.
C4_NotReadyStep ==
    \A c \in Callers :
        (cpc[c] = "sm_check" /\ ~is_ready /\ cpc'[c] # "sm_check") =>
            /\ slog' = Append(slog, Status(cur[c].id, MsgNotActive, "", c))
            /\ cpc'[c] = "idle"
            /\ mutex' = "free"
            /\ UNCHANGED <<hlog, guiQueue, h, outlet, stream_info, is_ready>>

C4_NotReadyOutcome ==
    \A k \in CallIds :
        WasRejected(k) =>
            /\ CountOf(slog, k, IsRejected) = 1
            /\ CountOf(slog, k, IsAccepted) = 0
            /\ CountOf(slog, k, IsRequest) = 0
            /\ \A i \in 1..Len(hlog) : hlog[i].id # k
            /\ Settled(k)

C4_NotReadyRejected == [][C4_NotReadyStep]_vars /\ []C4_NotReadyOutcome

C4_Witness ==
    /\ wpc = "done"
    /\ wcause = "StreamOutlet failed"
    /\ \E k \in CallIds : WasRejected(k) /\ Settled(k)

\* C5: the terminal status reports, and the push_sample calls, come in the
\* order in which the submissions were accepted, none skipped, duplicated
\* or reordered.
C5_FifoOrder ==
    /\ IsPrefix(TerminalIds, AcceptedIds)
    /\ IsPrefix(PushIds, AcceptedIds)

\* C6: when StreamInfo or StreamOutlet construction fails, run() emits the
\* status report 'Error starting LSL stream: {cause}', then
\* stream_ready(False), and returns without connecting or entering the
\* event loop; outlet and stream_info stay None and the readiness flag
\* false from then on.
C6_ConstructionFailure ==
    ConstructionFailed =>
        /\ outlet = "None"
        /\ stream_info = "None"
        /\ ~is_ready
        /\ ~connected
        /\ wpc \in {"except_status", "except_ready", "done", "killed"}
        /\ IsPrefix(wlog, <<Status(0, MsgErrStart, wcause, "worker"), ReadyFalseEv>>)
        /\ wpc = "except_status" => Len(wlog) = 0
        /\ wpc = "except_ready" => Len(wlog) = 1
        /\ wpc = "done" => Len(wlog) = 2

C6_Witness ==
    /\ wcause = "StreamOutlet failed"
    /\ wpc = "done"
    /\ wlog = <<Status(0, MsgErrStart, "StreamOutlet failed", "worker"), ReadyFalseEv>>
    /\ \E k \in CallIds : WasRejected(k) /\ calls[k].ctx = "gui"

\* C7: on successful construction run() stores stream_info and outlet and
\* sets the readiness flag in one critical section, then emits the status
\* report 'LSL stream started successfully', then stream_ready(True), then
\* connects and enters the event loop: the flag is true whenever either
\* has been emitted, and on entering the loop these two are all run() has
\* emitted.
C7_StartupState ==
    /\ wpc = "store" => mutex = "worker" /\ ~is_ready
    /\ wpc = "status" => wlog = <<>> /\ is_ready
    /\ wpc = "ready" => wlog = <<StartedEv>>
    /\ wpc \in {"connect", "exec"} => wlog = <<StartedEv, ReadyTrueEv>>
    /\ wpc = "exec" => connected
    /\ wlog # <<>> /\ wlog[1] = StartedEv =>
           is_ready /\ outlet # "None" /\ stream_info # "None"

C7_StoreStep ==
    (is_ready' # is_ready \/ outlet' # outlet \/ stream_info' # stream_info) =>
        /\ wpc = "store" /\ mutex = "worker" /\ mutex' = "free"
        /\ is_ready' /\ outlet' = "StreamOutlet" /\ stream_info' = "StreamInfo"

C7_StartupOrder == []C7_StartupState /\ [][C7_StoreStep]_vars

C7_Witness ==
    /\ wpc = "exec"
    /\ wlog = <<StartedEv, ReadyTrueEv>>
    /\ is_ready /\ outlet = "StreamOutlet" /\ connected

\* C8: a push_sample that raises is followed by exactly one 'Error sending
\* marker' status report for that marker and no 'Sent marker'; the step
\* changes neither outlet nor the readiness flag nor the worker, and a
\* submission accepted after the failure is pushed once and reported once.
C8_PushOutcome ==
    /\ \A i \in 1..Len(hlog) :
          IsPush(hlog[i]) =>
              /\ i < Len(hlog)
              /\ hlog[i + 1] =
                    IF hlog[i].msg = "raised"
                      THEN Status(hlog[i].id, MsgErrSend, "push failed", hlog[i].ctx)
                      ELSE Status(hlog[i].id, MsgSent, hlog[i].arg, hlog[i].ctx)
    /\ \A k \in CallIds :
          /\ CountOf(hlog, k, IsPush) <= 1
          /\ CountOf(hlog, k, IsTerminal) = CountOf(hlog, k, IsPush)
          /\ ( /\ WasAccepted(k)
               /\ Settled(k)
               /\ \E i \in 1..calls[k].seen : IsPush(hlog[i]) /\ hlog[i].msg = "raised" )
             => CountOf(hlog, k, IsPush) = 1

C8_PushStep ==
    hlog' # hlog => UNCHANGED <<outlet, stream_info, is_ready, connected, wpc, exited>>

C8_PushFailureNotFatal == []C8_PushOutcome /\ [][C8_PushStep]_vars

C8_Witness ==
    /\ Len(hlog) = 4
    /\ hlog[1].ev = "push_sample" /\ hlog[1].msg = "raised"
    /\ hlog[2] = Status(hlog[1].id, MsgErrSend, "push failed", "gui")
    /\ hlog[3].ev = "push_sample" /\ hlog[3].msg = "returned"
    /\ hlog[4] = Status(hlog[3].id, MsgSent, calls[hlog[3].id].text, "gui")
    /\ calls[hlog[3].id].seen >= 2
    /\ wpc = "exec" /\ is_ready

\* C9: closeEvent calls quit() and then wait(3000); when that returns True
\* it returns with no warning and no terminate(); when it returns False the
\* warning status comes next, then terminate(), then wait(), then the
\* return.
C9_CloseEventOrder ==
    lsl_thread # "None" =>
    \A i \in 1..Len(clog) :
        LET e == clog[i]
            p == IF i = 1 THEN Ev("return", 0, "", "", "gui") ELSE clog[i - 1]
        IN  /\ e.ev = "quit" => p.ev = "return"
            /\ e.ev = "wait3000" => p.ev = "quit"
            /\ e.ev = "status" => e.msg = MsgWarnStop /\ p.ev = "wait3000" /\ p.arg = "False"
            /\ e.ev = "terminate" => p.ev = "status"
            /\ e.ev = "wait" => p.ev = "terminate"
            /\ e.ev = "return" =>
                   \/ p.ev = "wait3000" /\ p.arg = "True"
                   \/ p.ev = "wait"
            /\ e.ev \in {"quit", "wait3000", "status", "terminate", "wait", "return"}
            /\ (i = Len(clog) /\ cpc["gui"] \notin {"ce_wait", "ce_warn", "ce_term",
                                                    "ce_wait2", "ce_return"})
                   => e.ev = "return"

C9_Witness ==
    /\ Len(clog) = 9
    /\ clog[2] = Ev("wait3000", 0, "", "False", "gui")
    /\ clog[3] = Status(0, MsgWarnStop, "", "gui")
    /\ clog[4].ev = "terminate"
    /\ clog[8] = Ev("wait3000", 0, "", "True", "gui")
    /\ clog[9].ev = "return"

\* C10: once a closeEvent has returned, a further closeEvent reports no
\* warning and calls no terminate(), and outlet, stream_info, the readiness
\* flag and the stopped worker stay as they were.
C10_AfterFirstClose ==
    lsl_thread # "None" =>
    \A i \in 1..Len(clog) : \A j \in 1..Len(clog) :
        (clog[i].ev = "return" /\ j > i) =>
            /\ clog[j].ev \in {"quit", "wait3000", "return"}
            /\ clog[j].ev = "wait3000" => clog[j].arg = "True"

C10_CloseStep ==
    (lsl_thread # "None" /\ closeCount >= 1) =>
        /\ isFinished
        /\ UNCHANGED <<wpc, outlet, stream_info, is_ready, connected>>

C10_ShutdownIdempotent == []C10_AfterFirstClose /\ [][C10_CloseStep]_vars

C10_Witness ==
    /\ closeCount = 2
    /\ cpc["gui"] = "idle"
    /\ \E i \in 1..Len(clog) : clog[i].ev = "terminate"

\* C11: whenever closeEvent returns the worker thread is not running,
\* wherever run() was when closeEvent was called, and an event that was
\* given has been accepted: with lsl_thread None, after a wait(3000) that
\* returned True, and after terminate().
Running == wpc \notin {"unstarted", "done", "killed"}

C11_AtReturn ==
    /\ cpc["gui"] = "ce_return" => ~Running
    /\ (cpc["gui"] = "idle" /\ closeCount >= 1) =>
           ~Running /\ closeEv \in {"accepted", "none"}

C11_ReturnStep ==
    (cpc["gui"] = "ce_return" /\ cpc'["gui"] = "idle") =>
        /\ ~Running'
        /\ closeEv = "event" => closeEv' = "accepted"
        /\ closeCount' = closeCount + 1

C11_WorkerStoppedOnReturn == []C11_AtReturn /\ [][C11_ReturnStep]_vars

C11_Witness ==
    /\ cpc["gui"] = "idle"
    /\ closeCount = 1
    /\ closeEv = "accepted"
    /\ wpc = "killed"
    /\ mutex = "worker"

\* C12: when no terminate() has been called, every send_marker call that
\* passed the readiness check before quit() was requested has exactly one
\* terminal status report once it is over, and has it when closeEvent
\* returns.
C12_OnlyTerminateDrops ==
    (\A i \in 1..Len(clog) : clog[i].ev # "terminate") =>
        \A k \in CallIds :
            (WasAccepted(k) /\ ~calls[k].afterQuit /\ (Settled(k) \/ closeCount >= 1))
                => CountOf(hlog, k, IsTerminal) = 1

\* C13: whenever the worker does not hold the mutex, the readiness flag is
\* true exactly when outlet is stored and exactly when stream_info is
\* stored, whatever starts, submissions, push failures and closeEvents have
\* happened.
C13_ReadyIffOutlet ==
    mutex # "worker" =>
        /\ is_ready <=> outlet # "None"
        /\ is_ready <=> stream_info # "None"

C13_Witness ==
    /\ is_ready /\ outlet = "StreamOutlet" /\ stream_info = "StreamInfo"
    /\ \E i \in 1..Len(hlog) : IsPush(hlog[i]) /\ hlog[i].msg = "raised"
    /\ closeCount >= 1
    /\ cpc["gui"] = "idle"
    /\ mutex = "free"

\* C14: every send_marker call that passed the readiness check causes
\* exactly one push_sample, whose sample is the text of the call unchanged;
\* no call is pushed twice and there are never more pushes than accepted
\* calls.
C14_OnePushPerAccepted ==
    /\ \A i \in 1..Len(hlog) :
          IsPush(hlog[i]) => hlog[i].arg = calls[hlog[i].id].text
    /\ \A k \in CallIds : CountOf(hlog, k, IsPush) <= 1
    /\ Len(PushIds) <= Len(AcceptedIds)
    /\ clog = <<>> =>
          \A k \in CallIds :
              (WasAccepted(k) /\ Settled(k)) => CountOf(hlog, k, IsPush) = 1

\* C15: no exception leaves run(), send_marker() or _handle_marker_request():
\* every context is always at a position of its code, a construction
\* failure takes run() through its handler to its end with one 'Error
\* starting LSL stream' report and stream_ready(False), and a push_sample
\* that raised is answered by one 'Error sending marker' report, after which
\* the handler has returned.
IsErrStart(e) == e.ev = "status" /\ e.msg = MsgErrStart
IsErrSend(e)  == e.ev = "status" /\ e.msg = MsgErrSend
IsRaised(e)   == e.ev = "push_sample" /\ e.msg = "raised"

CountIn(seq, Test(_)) == Cardinality({i \in 1..Len(seq) : Test(seq[i])})

C15_Positions ==
    /\ wpc \in {"unstarted", "info", "outlet", "lock", "store", "status", "ready",
                "connect", "exec", "except_status", "except_ready", "done", "killed"}
    /\ cpc["gui"] \in {"idle", "sm_lock", "sm_check", "sm_emit", "h_lock", "h_snap",
                       "h_push", "ce_wait", "ce_warn", "ce_term", "ce_wait2",
                       "ce_return"}
    /\ cpc["other"] \in {"idle", "sm_lock", "sm_check", "sm_emit"}

C15_Reports ==
    /\ ConstructionFailed =>
          /\ wpc \in {"except_status", "except_ready", "done", "killed"}
          /\ wpc = "done" =>
                 /\ CountIn(wlog, IsErrStart) = 1
                 /\ CountIn(wlog, IsReady) = 1
                 /\ wlog[Len(wlog)] = ReadyFalseEv
    /\ CountIn(hlog, IsErrSend) = CountIn(hlog, IsRaised)
    /\ \A k \in CallIds : CountOf(hlog, k, IsErrSend) = CountOf(hlog, k, IsRaised)

C15_RaiseStep ==
    CountIn(hlog', IsRaised) > CountIn(hlog, IsRaised) =>
        /\ cpc'["gui"] = "idle"
        /\ cpc["gui"] = "h_push"
        /\ UNCHANGED <<wpc, mutex, guiQueue>>

C15_FailuresContained == [](C15_Positions /\ C15_Reports) /\ [][C15_RaiseStep]_vars

C15_Witness ==
    /\ Len(hlog) = 2
    /\ IsRaised(hlog[1])
    /\ IsErrSend(hlog[2])
    /\ calls[hlog[1].id].ctx = "other"
    /\ cpc["gui"] = "idle"
    /\ wpc = "exec"

\* t is s without its leading and trailing spaces.
IsStripOf(t, s) ==
    \E a \in 0..Len(s) : \E b \in 0..(Len(s) - a) :
        /\ \A i \in 1..a : s[i] = " "
        /\ \A i \in (Len(s) - b + 1)..Len(s) : s[i] = " "
        /\ t = SubSeq(s, a + 1, Len(s) - b)
        /\ t # <<>> => t[1] # " " /\ t[Len(t)] # " "

IsBlank(s) == \A i \in 1..Len(s) : s[i] = " "

\* C16: no slot of the window passes an empty text to
\* lsl_thread.send_marker. send_marker with an input that is empty after
\* stripping forwards nothing, appends the one status 'Error: Empty marker
\* text' and keeps the input; with a non-empty stripped text and a thread it
\* forwards the stripped text once and clears the input; with no thread it
\* forwards nothing, appends 'Error: LSL stream not initialized' and keeps
\* the input.
C16_NoEmptyForward ==
    /\ Len(last.fw) <= 1
    /\ \A i \in 1..Len(last.fw) : ~IsBlank(last.fw[i])
    /\ last.op = "send_marker" =>
          \E t \in Inputs :
              /\ IsStripOf(t, last.arg)
              /\ IF t = <<>>
                   THEN /\ last.fw = <<>>
                        /\ last.st = <<MsgEmptyMarker>>
                        /\ marker_input = last.arg
                   ELSE IF lsl_thread # "None"
                     THEN /\ last.fw = <<t>>
                          /\ last.st = <<>>
                          /\ marker_input = <<>>
                     ELSE /\ last.fw = <<>>
                          /\ last.st = <<MsgNoThread>>
                          /\ marker_input = last.arg
    /\ last.op = "send_quick_marker" =>
          IF lsl_thread # "None"
            THEN last.fw = <<last.arg>> /\ last.st = <<>>
            ELSE last.fw = <<>> /\ last.st = <<MsgNoThread>>

C16_Witness ==
    /\ last.op = "send_marker"
    /\ last.arg = <<" ", "a", " ">>
    /\ last.fw = << <<"a">> >>
    /\ marker_input = <<>>

\* C17 as stated: send_end_modality_marker submits exactly one marker
\* 'END {modality}' for a modality other than 'Other'; for 'Other' with a
\* non-empty stripped custom text it submits 'END ' and the text upper-cased
\* and clears the custom input; for 'Other' with an empty stripped custom
\* text it submits nothing, appends the one status 'Error: Please enter a
\* custom modality' and keeps the input; it never submits two markers.
EndCase(WithText(_), Without) ==
    IF modality # "Other"
      THEN WithText(<<"END ", modality>>) /\ custom_input = last.arg
      ELSE \E t \in Inputs :
              /\ IsStripOf(t, last.arg)
              /\ IF t # <<>>
                   THEN WithText(<<"END ">> \o Upper(t)) /\ custom_input = <<>>
                   ELSE Without /\ custom_input = last.arg

C17_Submits(m) == last.fw = <<m>>
C17_RejectsCustom == last.fw = <<>> /\ last.st = <<MsgNoCustom>>

C17_EndModalityMarker ==
    last.op = "send_end_modality_marker" =>
        /\ Len(last.fw) <= 1
        /\ EndCase(C17_Submits, C17_RejectsCustom)

\* C17, amended: with a thread present send_end_modality_marker does the
\* above and appends no status; with lsl_thread None it submits nothing
\* and, unless the custom text was empty, appends the one status 'Error:
\* LSL stream not initialized', the custom input of 'Other' being cleared
\* all the same.
C17_SubmitsOrReports(m) ==
    IF lsl_thread # "None"
      THEN last.fw = <<m>> /\ last.st = <<>>
      ELSE last.fw = <<>> /\ last.st = <<MsgNoThread>>

C17_EndModalityMarkerWithThread ==
    last.op = "send_end_modality_marker" =>
        /\ Len(last.fw) <= 1
        /\ EndCase(C17_SubmitsOrReports, C17_RejectsCustom)

C17_Witness ==
    /\ last.op = "send_end_modality_marker"
    /\ modality = "Other"
    /\ last.arg = <<" ", "a", "B">>
    /\ lsl_thread = "None"
    /\ last.st = <<MsgNoThread>>
    /\ custom_input = <<>>

\* C18: on_stream_ready(ready) leaves the send button, the END button and
\* every quick marker button enabled exactly when ready is true; for False
\* it appends the one status 'Warning: LSL stream failed to start. Marker
\* buttons disabled.', for True none; it passes nothing to the thread and
\* changes neither lsl_thread nor anything of the thread.
C18_Enabled ==
    /\ \A b \in Buttons : \A d \in Buttons : enabled[b] = enabled[d]
    /\ last.op = "on_stream_ready" =>
          /\ last.arg \in {<<"True">>, <<"False">>}
          /\ \A b \in Buttons : enabled[b] <=> last.arg = <<"True">>
          /\ last.st = IF last.arg = <<"False">> THEN <<MsgNotStarted>> ELSE <<>>
          /\ last.fw = <<>>

C18_ReadyStep ==
    (enabled' # enabled \/ (last'.op = "on_stream_ready" /\ last' # last)) =>
        /\ last'.op = "on_stream_ready"
        /\ UNCHANGED <<lsl_thread, listeners, marker_input, custom_input, modality>>
        /\ UNCHANGED chanvars

C18_OnStreamReady == []C18_Enabled /\ [][C18_ReadyStep]_vars

C18_Witness ==
    /\ last = Did("on_stream_ready", <<"False">>, <<>>, <<MsgNotStarted>>)
    /\ \A b \in Buttons : ~enabled[b]
    /\ marker_input # <<>>

HandlerPcs == {"h_lock", "h_snap", "h_push"}

\* C19: _handle_marker_request runs in the worker thread only, never in
\* the thread that called send_marker for that marker, and at most one
\* invocation of it is active at a time.
C19_HandlerInWorkerOnly ==
    /\ \A i \in 1..Len(hlog) :
          /\ hlog[i].ctx = "worker"
          /\ hlog[i].ctx # calls[hlog[i].id].ctx
    /\ Cardinality({c \in Callers : cpc[c] \in HandlerPcs}) <= 1

\* C20: send_marker returns without running or awaiting the push: no
\* context is inside _handle_marker_request for a marker whose send_marker
\* it is still executing, no push is made by the context that submitted the
\* marker, no context waits for the mutex while holding it, and (no
\* closeEvent having been called) whoever holds the mutex is inside a
\* critical section, which it leaves.
C20_SendMarkerNeverPushes ==
    /\ \A c \in Callers : cpc[c] \in HandlerPcs => calls[h.id].ctx # c
    /\ \A i \in 1..Len(hlog) :
          IsPush(hlog[i]) => hlog[i].ctx # calls[hlog[i].id].ctx
    /\ \A c \in Callers : cpc[c] \in {"sm_lock", "h_lock"} => mutex # c
    /\ clog = <<>> =>
          /\ mutex = "worker" => wpc = "store"
          /\ \A c \in Callers : mutex = c => cpc[c] \in {"sm_check", "h_snap"}

\* C21: the mutex is not held across push_sample: at the push the handler
\* has released the lock it took for the snapshot, a send_marker waiting
\* for the lock during a push finds it free or held by another
\* send_marker's readiness check, the push step itself neither holds nor
\* touches the mutex, and run() holds it nowhere after its critical
\* section, its event loop included.
PushInProgress == cpc["gui"] = "h_push" /\ hOutlet # "None"

C21_LockFreeAtPush ==
    /\ cpc["gui"] = "h_push" => mutex # "gui"
    /\ PushInProgress =>
          /\ mutex \in {"free", "other"}
          /\ mutex = "other" => cpc["other"] = "sm_check"
          /\ cpc["other"] = "sm_lock" => mutex = "free"
    /\ wpc \in {"status", "ready", "connect", "exec", "except_status",
                "except_ready", "done"} => mutex # "worker"

C21_PushStep ==
    hlog' # hlog => mutex # "gui" /\ mutex' = mutex

C21_NoLockAcrossPush == []C21_LockFreeAtPush /\ [][C21_PushStep]_vars

C21_Witness ==
    /\ PushInProgress
    /\ cpc["other"] = "sm_check"
    /\ mutex = "other"
    /\ wpc = "exec"

\* C22: a readiness flag that is true stays true and a stored outlet stays
\* stored, through submissions, push failures, quit() and terminate(); so
\* _handle_marker_request never finds outlet None and never reports 'LSL
\* stream not active'.
C22_Monotone ==
    /\ is_ready => is_ready'
    /\ outlet # "None" => outlet' = outlet

C22_HandlerHasOutlet ==
    /\ cpc["gui"] = "h_push" => hOutlet = "StreamOutlet"
    /\ \A i \in 1..Len(hlog) : ~IsRejected(hlog[i])
    /\ \A k \in CallIds : WasAccepted(k) => is_ready /\ outlet = "StreamOutlet"

C22_ReadinessMonotone == [][C22_Monotone]_vars /\ []C22_HandlerHasOutlet

C22_Witness ==
    /\ \E k \in CallIds :
          /\ calls[k].afterClose
          /\ CountOf(hlog, k, IsPush) = 1
          /\ Settled(k)
    /\ \E i \in 1..Len(hlog) : IsPush(hlog[i]) /\ hlog[i].msg = "raised"
    /\ wpc = "done"

\* C23: outlet, stream_info and the readiness flag change only in the
\* critical section of run(), with the worker holding the mutex; send_marker
\* reads the flag, and _handle_marker_request reads outlet, holding the
\* mutex; no step of send_marker or of _handle_marker_request changes any
\* of the three, whether the marker is rejected, pushed or its push fails.
C23_ReadsLocked ==
    /\ \A c \in Callers : cpc[c] = "sm_check" => mutex = c
    /\ cpc["gui"] = "h_snap" => mutex = "gui"
    /\ wpc = "store" => mutex = "worker"

C23_WriteStep ==
    /\ <<outlet, stream_info, is_ready>>' # <<outlet, stream_info, is_ready>> =>
          wpc = "store" /\ wpc' = "status" /\ mutex = "worker"
    /\ (slog' # slog \/ hlog' # hlog \/ cpc' # cpc) =>
          UNCHANGED <<outlet, stream_info, is_ready>>

C23_FieldsGuarded == []C23_ReadsLocked /\ [][C23_WriteStep]_vars

C23_Witness ==
    /\ \E k \in CallIds : WasRejected(k) /\ Settled(k)
    /\ \E i \in 1..Len(hlog) : IsPush(hlog[i]) /\ hlog[i].msg = "raised"
    /\ is_ready /\ outlet = "StreamOutlet" /\ stream_info = "StreamInfo"
    /\ cpc = [c \in Callers |-> "idle"]
    /\ clog = <<>>

\* The positions of run(), in the order of its code.
WOrder == <<"unstarted", "info", "outlet", "lock", "store", "status", "ready",
            "connect", "exec", "except_status", "except_ready", "done", "killed">>
WPos(p) == CHOOSE i \in 1..Len(WOrder) : WOrder[i] = p

\* C24: where start_lsl_stream has run, the window keeps the one
\* LSLStreamThread it created; start() is called once, after update_status
\* and on_stream_ready have been connected, so that run() emits nothing
\* before they are; and run() goes through its code once, forwards only:
\* StreamOutlet is constructed at most once, whatever is submitted and
\* however often the window is closed.
C24_Wired ==
    lsl_thread # "None" =>
        /\ wpc # "unstarted" => listeners = <<"status_update", "stream_ready">>
        /\ wlog # <<>> => listeners = <<"status_update", "stream_ready">>
        /\ outlet # "None" => WPos(wpc) > WPos("outlet")

C24_StartStep ==
    /\ lsl_thread' = lsl_thread
    /\ wpc' # wpc => WPos(wpc') > WPos(wpc)
    /\ (wpc = "unstarted" /\ wpc' # wpc) =>
          /\ wpc' = "info"
          /\ listeners = <<"status_update", "stream_ready">>
          /\ listeners' = listeners
    /\ wpc' = "outlet" => wpc \in {"info", "outlet"}
    /\ listeners' # listeners => wpc = "unstarted" /\ Len(listeners') = Len(listeners) + 1

C24_OneThreadStartedOnce == []C24_Wired /\ [][C24_StartStep]_vars

C24_Witness ==
    /\ lsl_thread = "LSLStreamThread"
    /\ listeners = <<"status_update", "stream_ready">>
    /\ wpc = "done"
    /\ outlet = "StreamOutlet"
    /\ closeCount = 2
    /\ Len(calls) = 2

\* C25: while the buttons are disabled, that is from construction until
\* on_stream_ready(True) is delivered and again after on_stream_ready(False),
\* nothing the user does makes the window call lsl_thread.send_marker.
C25_NoSubmitWhileDisabled ==
    last.fw # <<>> => \A b \in Buttons : enabled[b]

IsStatus(e) == e.ev = "status"

\* C26: a send_marker call has at most one status report, from send_marker
\* or from the handler of its request; a call rejected by the readiness
\* check has no acceptance, no request, no push and no 'Sent marker' or
\* 'Error sending marker' report; a call that forwarded its request did so
\* once and reported nothing itself.
C26_OneReportPerCall ==
    \A k \in CallIds :
        /\ CountOf(slog, k, IsStatus) + CountOf(hlog, k, IsStatus) <= 1
        /\ WasRejected(k) =>
              /\ ~WasAccepted(k)
              /\ CountOf(slog, k, IsRequest) = 0
              /\ CountOf(hlog, k, IsPush) = 0
              /\ CountOf(hlog, k, IsStatus) = 0
        /\ CountOf(slog, k, IsRequest) > 0 =>
              /\ CountOf(slog, k, IsRequest) = 1
              /\ CountOf(slog, k, IsStatus) = 0

C26_Witness ==
    /\ Len(calls) = 2
    /\ WasRejected(1) /\ Settled(1)
    /\ CountOf(slog, 2, IsRequest) = 1 /\ Settled(2)
    /\ CountOf(hlog, 2, IsTerminal) = 1
    /\ calls[1].ctx = "gui" /\ calls[2].ctx = "other"

====
